---- MODULE Spec2Model ----
(***************************************************************************)
(* A model of the NestJS module generator (src/generate.js): the naming    *)
(* transforms, the placeholder renderer, the exclusion policy, the output  *)
(* path derivation, generateFile and the batch loop of generateModules,    *)
(* run against a small filesystem.                                         *)
(*                                                                         *)
(* A JavaScript string is a sequence of one-character strings, so that the *)
(* regular-expression replacements are computed character by character.    *)
(***************************************************************************)
EXTENDS Integers, Sequences, FiniteSets, TLC

(***************************************************************************)
(* Characters and case mapping (ASCII letters).                            *)
(***************************************************************************)
LowerChars == <<"a","b","c","d","e","f","g","h","i","j","k","l","m",
                "n","o","p","q","r","s","t","u","v","w","x","y","z">>

UpperChars == <<"A","B","C","D","E","F","G","H","I","J","K","L","M",
                "N","O","P","Q","R","S","T","U","V","W","X","Y","Z">>

LowerSet == {LowerChars[i] : i \in DOMAIN LowerChars}

UpperSet == {UpperChars[i] : i \in DOMAIN UpperChars}

\* [a-z]
IsLower(c) == c \in LowerSet

\* [A-Z]
IsUpper(c) == c \in UpperSet

toUpperChar(c) ==
  IF IsLower(c)
    THEN UpperChars[CHOOSE i \in DOMAIN LowerChars : LowerChars[i] = c]
    ELSE c

toLowerChar(c) ==
  IF IsUpper(c)
    THEN LowerChars[CHOOSE i \in DOMAIN UpperChars : UpperChars[i] = c]
    ELSE c

toUpperCase(str) == [i \in 1..Len(str) |-> toUpperChar(str[i])]

toLowerCase(str) == [i \in 1..Len(str) |-> toLowerChar(str[i])]

\* str.slice(from), with from counted from 0
slice(str, from) == SubSeq(str, from + 1, Len(str))

(***************************************************************************)
(* NameTransformer.                                                        *)
(***************************************************************************)
\* str.charAt(0).toUpperCase() + str.slice(1)
toPascalCase(str) ==
  IF str = <<>> THEN <<>> ELSE <<toUpperChar(str[1])>> \o slice(str, 1)

\* str.charAt(0).toLowerCase() + str.slice(1)
toCamelCase(str) ==
  IF str = <<>> THEN <<>> ELSE <<toLowerChar(str[1])>> \o slice(str, 1)

\* str.replace(/([a-z])([A-Z])/g, '$1' + sep + '$2'): a left-to-right scan,
\* the search resuming after each two-character match
RECURSIVE replaceCaseBoundary(_, _)
replaceCaseBoundary(str, sep) ==
  IF Len(str) < 2 THEN str
  ELSE IF IsLower(str[1]) /\ IsUpper(str[2])
    THEN <<str[1], sep, str[2]>> \o replaceCaseBoundary(slice(str, 2), sep)
    ELSE <<str[1]>> \o replaceCaseBoundary(slice(str, 1), sep)

toKebabCase(str) == toLowerCase(replaceCaseBoundary(str, "-"))

toSnakeCase(str) == toLowerCase(replaceCaseBoundary(str, "_"))

(***************************************************************************)
(* String.prototype.replace with a global, literal pattern and a string    *)
(* replacement value.                                                      *)
(***************************************************************************)
\* does pattern occur in str at (1-based) position pos
MatchesAt(str, pattern, pos) ==
  /\ pos + Len(pattern) - 1 <= Len(str)
  /\ \A k \in 1..Len(pattern) : str[pos + k - 1] = pattern[k]

\* the replacement text of one match: $$, $&, $` and $' are expanded, any
\* other character (and a $ followed by anything else: the patterns have no
\* capture group) stands for itself
RECURSIVE GetSubstitution(_, _, _, _)
GetSubstitution(matched, str, pos, value) ==
  IF value = <<>> THEN <<>>
  ELSE IF value[1] = "$" /\ Len(value) >= 2 /\ value[2] = "$"
    THEN <<"$">> \o GetSubstitution(matched, str, pos, slice(value, 2))
  ELSE IF value[1] = "$" /\ Len(value) >= 2 /\ value[2] = "&"
    THEN matched \o GetSubstitution(matched, str, pos, slice(value, 2))
  ELSE IF value[1] = "$" /\ Len(value) >= 2 /\ value[2] = "`"
    THEN SubSeq(str, 1, pos - 1)
           \o GetSubstitution(matched, str, pos, slice(value, 2))
  ELSE IF value[1] = "$" /\ Len(value) >= 2 /\ value[2] = "'"
    THEN SubSeq(str, pos + Len(matched), Len(str))
           \o GetSubstitution(matched, str, pos, slice(value, 2))
  ELSE <<value[1]>> \o GetSubstitution(matched, str, pos, slice(value, 1))

RECURSIVE replaceFrom(_, _, _, _)
replaceFrom(str, pattern, value, pos) ==
  IF pos > Len(str) THEN <<>>
  ELSE IF MatchesAt(str, pattern, pos)
    THEN GetSubstitution(pattern, str, pos, value)
           \o replaceFrom(str, pattern, value, pos + Len(pattern))
    ELSE <<str[pos]>> \o replaceFrom(str, pattern, value, pos + 1)

\* str.replace(new RegExp(pattern, 'g'), value)
replaceAll(str, pattern, value) == replaceFrom(str, pattern, value, 1)

(***************************************************************************)
(* PlaceholderRenderer.                                                    *)
(***************************************************************************)
TokModuleName == <<"{","{","m","o","d","u","l","e","N","a","m","e","}","}">>

TokPascal == <<"{","{","M","o","d","u","l","e","N","a","m","e","}","}">>

TokSnake == <<"{","{","m","o","d","u","l","e","_","n","a","m","e","}","}">>

TokKebab == <<"{","{","m","o","d","u","l","e","-","n","a","m","e","}","}">>

TokCamel == <<"{","{","c","a","m","e","l","M","o","d","u","l","e",
              "N","a","m","e","}","}">>

TokUpper == <<"{","{","M","O","D","U","L","E","_","N","A","M","E","}","}">>

\* the replacements object, in the order of its keys
replacements(moduleName) ==
  << <<TokModuleName, moduleName>>,
     <<TokPascal, toPascalCase(moduleName)>>,
     <<TokSnake, toSnakeCase(moduleName)>>,
     <<TokKebab, toKebabCase(moduleName)>>,
     <<TokCamel, toCamelCase(moduleName)>>,
     <<TokUpper, toUpperCase(moduleName)>> >>

\* the forEach over the entries listed by order: one global replace each
RECURSIVE applyReplacements(_, _, _)
applyReplacements(content, reps, order) ==
  IF order = <<>> THEN content
  ELSE applyReplacements(
         replaceAll(content, reps[Head(order)][1], reps[Head(order)][2]),
         reps, Tail(order))

EntriesOrder == <<1, 2, 3, 4, 5, 6>>

\* processTemplate applied to the text read from the template file
processTemplate(templateBody, moduleName) ==
  applyReplacements(templateBody, replacements(moduleName), EntriesOrder)

(***************************************************************************)
(* The configuration set by the constructor.                               *)
(***************************************************************************)
\* Object.entries(this.config.templates), by key
TemplateNames ==
  <<"module", "controller", "service", "create-dto", "update-dto", "schema">>

\* an absent outputPath or filename is the empty string: both are tested for
\* truthiness only
templates ==
  [t \in {TemplateNames[i] : i \in DOMAIN TemplateNames} |->
     CASE t = "module" ->
            [extension |-> <<"m","o","d","u","l","e",".","t","s">>,
             outputPath |-> <<>>, filename |-> <<>>]
       [] t = "controller" ->
            [extension |-> <<"c","o","n","t","r","o","l","l","e","r",".","t","s">>,
             outputPath |-> <<>>, filename |-> <<>>]
       [] t = "service" ->
            [extension |-> <<"s","e","r","v","i","c","e",".","t","s">>,
             outputPath |-> <<>>, filename |-> <<>>]
       [] t = "create-dto" ->
            [extension |-> <<"d","t","o",".","t","s">>,
             outputPath |-> <<"d","t","o">>,
             filename |-> <<"c","r","e","a","t","e","-">> \o TokModuleName \o <<".","d","t","o",".","t","s">>]
       [] t = "update-dto" ->
            [extension |-> <<"d","t","o",".","t","s">>,
             outputPath |-> <<"d","t","o">>,
             filename |-> <<"u","p","d","a","t","e","-">> \o TokModuleName \o <<".","d","t","o",".","t","s">>]
       [] t = "schema" ->
            [extension |-> <<"s","c","h","e","m","a",".","t","s">>,
             outputPath |-> <<"s","c","h","e","m","a">>,
             filename |-> TokModuleName \o <<".","s","c","h","e","m","a",".","t","s">>]]

NameAuth == <<"a","u","t","h">>

NamePayments == <<"p","a","y","m","e","n","t","s">>

NameSidebar == <<"s","i","d","e","b","a","r">>

NameOrders == <<"o","r","d","e","r","s">>

NameUserProfile == <<"u","s","e","r","P","r","o","f","i","l","e">>

\* this.config.exclusions; a template without an entry has no exclude list
exclusions ==
  [t \in {"create-dto", "update-dto", "schema"} |->
     IF t = "schema" THEN {NameAuth, NameSidebar}
                     ELSE {NameAuth, NamePayments}]

(***************************************************************************)
(* ExclusionPolicy.                                                        *)
(***************************************************************************)
\* a slip: the arguments swapped in the lookup, exclusions[moduleName]: no
\* module name is a key of the table, so that no exclude list is found
shouldExclude_swapped(moduleName, templateName) == FALSE

\* excludeList && excludeList.includes(moduleName)
shouldExclude(moduleName, templateName) ==
  /\ templateName \in DOMAIN exclusions
  /\ moduleName \in exclusions[templateName]

(***************************************************************************)
(* OutputResolver: the path computations of generateFile.  A path is the   *)
(* sequence of its components below outputDir.                             *)
(***************************************************************************)
\* a slip: the outputPath of the descriptor ignored
resolveOutputPath_flat(moduleName, templateConfig) == <<moduleName>>

\* path.join(outputDir, moduleName[, templateConfig.outputPath])
resolveOutputPath(moduleName, templateConfig) ==
  IF templateConfig.outputPath # <<>>
    THEN <<moduleName, templateConfig.outputPath>>
    ELSE <<moduleName>>

\* str.replace(pattern, value) without the g flag: the first match only
RECURSIVE replaceFirstFrom(_, _, _, _)
replaceFirstFrom(str, pattern, value, pos) ==
  IF pos > Len(str) THEN <<>>
  ELSE IF MatchesAt(str, pattern, pos)
    THEN GetSubstitution(pattern, str, pos, value)
           \o SubSeq(str, pos + Len(pattern), Len(str))
    ELSE <<str[pos]>> \o replaceFirstFrom(str, pattern, value, pos + 1)

\* a slip: the g flag of the filename replacement forgotten
resolveFilename_first(moduleName, templateConfig) ==
  IF templateConfig.filename # <<>>
    THEN replaceFirstFrom(templateConfig.filename, TokModuleName, moduleName, 1)
    ELSE moduleName \o <<".">> \o templateConfig.extension

\* templateConfig.filename.replace(/{{moduleName}}/g, moduleName), or
\* `${moduleName}.${templateConfig.extension}`
resolveFilename(moduleName, templateConfig) ==
  IF templateConfig.filename # <<>>
    THEN replaceAll(templateConfig.filename, TokModuleName, moduleName)
    ELSE moduleName \o <<".">> \o templateConfig.extension

\* path.join(outputPath, filename)
resolveFullPath(moduleName, templateConfig) ==
  Append(resolveOutputPath(moduleName, templateConfig),
         resolveFilename(moduleName, templateConfig))

(***************************************************************************)
(* The filesystem.  Below outputDir a path is a sequence of components;    *)
(* <<>> is outputDir itself.  dirs is the set of existing directories,     *)
(* files maps each existing regular file to its content, denied is the     *)
(* set of directories in which no entry can be created (EACCES).  The      *)
(* template store is stubs: one body per existing <name>.stub file.        *)
(***************************************************************************)
VARIABLES
  templatesDirExists,  \* fs.existsSync(this.config.templatesDir)
  stubs,               \* template name -> body, for the stub files present
  dirs,
  files,
  denied,
  pc,                  \* "idle", "running" (inside generateModules), "exited"
  moduleNames,         \* the list the running batch iterates
  mi,                  \* position of moduleNames.forEach
  ti,                  \* position of Object.entries(templates).forEach
  log,                 \* the outcomes of the running batch, in order
  last,                \* the last generateFile call
  prev,                \* the generateFile call before it
  calls,               \* number of calls made from outside
  entry,               \* the method the last call from outside entered
  atStart,             \* the tree below outputDir when that call was made
  rphase,              \* pure-function runs: "off", "input", "done"
  rkind,               \* "render" or "resolve"
  rbody,
  rname,
  rcfg,
  rout

vars ==
  <<templatesDirExists, stubs, dirs, files, denied, pc, moduleNames, mi, ti,
    log, last, prev, calls, entry, atStart, rphase, rkind, rbody, rname, rcfg, rout>>

fsVars == <<templatesDirExists, stubs, denied>>

renderVars == <<rphase, rkind, rbody, rname, rcfg, rout>>

EmptyFiles == [p \in {} |-> <<>>]

\* fs.existsSync(p) for a path below outputDir
existsSync(p, ds, fs) == p \in ds \/ p \in DOMAIN fs

\* fs.mkdirSync(path, { recursive: true }): every missing ancestor is created,
\* top down; a regular file on the way (ENOTDIR, EEXIST) or a parent that
\* refuses new entries (EACCES) throws, keeping what was created before
RECURSIVE mkdirFrom(_, _, _, _, _)
mkdirFrom(path, k, ds, fs, dn) ==
  IF k > Len(path) THEN [ok |-> TRUE, dirs |-> ds]
  ELSE LET p == SubSeq(path, 1, k) IN
    IF p \in DOMAIN fs THEN [ok |-> FALSE, dirs |-> ds]
    ELSE IF p \in ds THEN mkdirFrom(path, k + 1, ds, fs, dn)
    ELSE IF k > 0 /\ SubSeq(path, 1, k - 1) \in dn
      THEN [ok |-> FALSE, dirs |-> ds]
      ELSE mkdirFrom(path, k + 1, ds \cup {p}, fs, dn)

mkdirSync(path, ds, fs, dn) == mkdirFrom(path, 0, ds, fs, dn)

\* fs.writeFileSync(fullPath, content): creates or overwrites the file; throws
\* when the path is a directory (EISDIR), when the parent directory is missing
\* (ENOENT) or when a new entry cannot be created in it (EACCES)
writeFileSync(fullPath, content, ds, fs, dn) ==
  LET parent == SubSeq(fullPath, 1, Len(fullPath) - 1) IN
  IF \/ fullPath \in ds
     \/ parent \notin ds
     \/ (fullPath \notin DOMAIN fs /\ parent \in dn)
    THEN [ok |-> FALSE, files |-> fs]
    ELSE [ok |-> TRUE,
          files |-> [p \in DOMAIN fs \cup {fullPath} |->
                       IF p = fullPath THEN content ELSE fs[p]]]

(***************************************************************************)
(* GenerationEngine.                                                       *)
(***************************************************************************)
\* read: whether the template file was read
Outcome(o, r, rd, ds, fs) ==
  [outcome |-> o, reason |-> r, read |-> rd, dirs |-> ds, files |-> fs]

\* a slip: the existence check dropped, the file always written
generateFile_overwrite(moduleName, templateName, templateConfig, st, ds, fs, dn) ==
  IF shouldExclude(moduleName, templateName)
    THEN Outcome("SkippedExcluded", "", FALSE, ds, fs)
  ELSE IF templateName \notin DOMAIN st
    THEN Outcome("Failed", "TemplateNotFound", FALSE, ds, fs)
  ELSE
    LET content == processTemplate(st[templateName], moduleName)
        outputPath == resolveOutputPath(moduleName, templateConfig)
        made == mkdirSync(outputPath, ds, fs, dn)
        fullPath == Append(outputPath,
                           resolveFilename(moduleName, templateConfig))
        written == writeFileSync(fullPath, content, made.dirs, fs, dn)
    IN  IF ~made.ok \/ ~written.ok
          THEN Outcome("Failed", "WriteFailure", TRUE, made.dirs, fs)
          ELSE Outcome("Generated", "", TRUE, made.dirs, written.files)

\* a slip: the directory created and the destination tested before the
\* template is looked up
generateFile_mkdirFirst(moduleName, templateName, templateConfig, st, ds, fs, dn) ==
  IF shouldExclude(moduleName, templateName)
    THEN Outcome("SkippedExcluded", "", FALSE, ds, fs)
  ELSE
    LET outputPath == resolveOutputPath(moduleName, templateConfig)
        made == mkdirSync(outputPath, ds, fs, dn)
        fullPath == Append(outputPath,
                           resolveFilename(moduleName, templateConfig))
        found == templateName \in DOMAIN st
        content == processTemplate(st[templateName], moduleName)
        written == writeFileSync(fullPath, content, made.dirs, fs, dn)
    IN  IF ~made.ok
          THEN Outcome("Failed", "WriteFailure", FALSE, made.dirs, fs)
        ELSE IF existsSync(fullPath, made.dirs, fs)
          THEN Outcome("SkippedExists", "", FALSE, made.dirs, fs)
        ELSE IF ~found
          THEN Outcome("Failed", "TemplateNotFound", FALSE, made.dirs, fs)
        ELSE IF ~written.ok
          THEN Outcome("Failed", "WriteFailure", TRUE, made.dirs, fs)
          ELSE Outcome("Generated", "", TRUE, made.dirs, written.files)

\* generateFile: the outcome it logs and the filesystem it leaves
generateFile(moduleName, templateName, templateConfig, st, ds, fs, dn) ==
  IF shouldExclude(moduleName, templateName)
    THEN Outcome("SkippedExcluded", "", FALSE, ds, fs)
  ELSE IF templateName \notin DOMAIN st
    THEN Outcome("Failed", "TemplateNotFound", FALSE, ds, fs)
  ELSE
    LET content == processTemplate(st[templateName], moduleName)
        outputPath == resolveOutputPath(moduleName, templateConfig)
        made == mkdirSync(outputPath, ds, fs, dn)
        filename == resolveFilename(moduleName, templateConfig)
        fullPath == Append(outputPath, filename)
        written == writeFileSync(fullPath, content, made.dirs, fs, dn)
    IN  IF ~made.ok
          THEN Outcome("Failed", "WriteFailure", TRUE, made.dirs, fs)
        ELSE IF existsSync(fullPath, made.dirs, fs)
          THEN Outcome("SkippedExists", "", TRUE, made.dirs, fs)
        ELSE IF ~written.ok
          THEN Outcome("Failed", "WriteFailure", TRUE, made.dirs, fs)
          ELSE Outcome("Generated", "", TRUE, made.dirs, written.files)

\* a slip: no try/catch, a failed unit throws into the loops
errorPropagates_uncaught(result) == result.outcome = "Failed"

\* the try/catch of generateFile catches every error of the unit: none
\* propagates to the forEach loops
errorPropagates(result) == FALSE

\* what is remembered of one generateFile call: its arguments, its outcome
\* and the filesystem it found
CallRecord(m, t, result) ==
  [m |-> m, t |-> t, outcome |-> result.outcome, reason |-> result.reason,
   read |-> result.read,
   templateFound |-> t \in DOMAIN stubs,
   destExisted |-> existsSync(resolveFullPath(m, templates[t]), dirs, files),
   dirsBefore |-> dirs, filesBefore |-> files]

NoCall ==
  [m |-> <<>>, t |-> "", outcome |-> "None", reason |-> "", read |-> FALSE,
   templateFound |-> FALSE, destExisted |-> FALSE,
   dirsBefore |-> {}, filesBefore |-> EmptyFiles]

(***************************************************************************)
(* Bounds and inputs.                                                      *)
(***************************************************************************)
MaxCalls == 2

MaxList == 2

MaxBodyLen == 2

ModuleInputs == {NameAuth, NameOrders}

ModuleLists == UNION {[1..n -> ModuleInputs] : n \in 0..MaxList}

TemplateSet == {TemplateNames[i] : i \in DOMAIN TemplateNames}

\* the body of a stub file of the template store
StubBody(t) ==
  CASE t = "module" -> <<"M">> \o TokPascal
    [] t = "controller" -> <<"C">> \o TokKebab
    [] t = "service" -> <<"S">> \o TokCamel
    [] t = "create-dto" -> <<"D">> \o TokModuleName
    [] t = "update-dto" -> <<"U">> \o TokUpper
    [] t = "schema" -> <<"H">> \o TokSnake

\* the stub files a templates directory may hold
StubSets == { TemplateSet, TemplateSet \ {"module", "create-dto"} }

UserEdit == <<"e","d","i","t","e","d">>

PathOrdersModule == <<NameOrders, NameOrders \o <<".","m","o","d","u","l","e",".","t","s">>>>

PathAuthCreateDto == <<NameAuth, <<"d","t","o">>, <<"c","r","e","a","t","e","-","a","u","t","h",".","d","t","o",".","t","s">>>>

\* the trees outputDir may hold before the first call
InitialTrees ==
  { \* outputDir does not exist
    [dirs |-> {}, files |-> EmptyFiles, denied |-> {}],
    \* two files generated earlier and edited since, and a regular file
    \* where the schema directory of orders belongs
    [dirs |-> {<<>>, <<NameOrders>>, <<NameAuth>>, <<NameAuth, <<"d","t","o">>>>},
     files |-> [p \in {PathOrdersModule, PathAuthCreateDto,
                       <<NameOrders, <<"s","c","h","e","m","a">>>>} |-> UserEdit],
     denied |-> {}],
    \* the directory of orders exists and is read-only
    [dirs |-> {<<>>, <<NameOrders>>},
     files |-> EmptyFiles,
     denied |-> {<<NameOrders>>}] }

RenderOff ==
  /\ rphase = "off"
  /\ rkind = "none"
  /\ rbody = <<>>
  /\ rname = <<>>
  /\ rcfg = templates["module"]
  /\ rout = <<>>

Init ==
  /\ templatesDirExists \in BOOLEAN
  /\ \E present \in StubSets :
       stubs = IF templatesDirExists THEN [t \in present |-> StubBody(t)]
                                     ELSE [t \in {} |-> <<>>]
  /\ \E tree \in InitialTrees :
       /\ dirs = tree.dirs
       /\ files = tree.files
       /\ denied = tree.denied
  /\ pc = "idle"
  /\ moduleNames = <<>>
  /\ mi = 1
  /\ ti = 1
  /\ log = <<>>
  /\ last = NoCall
  /\ prev = NoCall
  /\ calls = 0
  /\ entry = "none"
  /\ atStart = [dirs |-> dirs, files |-> files]
  /\ RenderOff

(***************************************************************************)
(* Operations.                                                             *)
(***************************************************************************)
\* one generateFile call: the filesystem and the call history after it
RunUnit(m, t) ==
  LET result == generateFile(m, t, templates[t], stubs, dirs, files, denied)
  IN  /\ dirs' = result.dirs
      /\ files' = result.files
      /\ prev' = last
      /\ last' = CallRecord(m, t, result)

\* generateFile called on its own
CallGenerateFile(m, t) ==
  /\ pc = "idle"
  /\ calls < MaxCalls
  /\ RunUnit(m, t)
  /\ calls' = calls + 1
  /\ entry' = "generateFile"
  /\ atStart' = [dirs |-> dirs, files |-> files]
  /\ UNCHANGED <<fsVars, pc, moduleNames, mi, ti, log, renderVars>>

\* generateModule called on its own: the loop over the templates, with no
\* check of the templates directory
CallGenerateModule(m) ==
  /\ pc = "idle"
  /\ calls < MaxCalls
  /\ pc' = "running"
  /\ moduleNames' = <<m>>
  /\ mi' = 1
  /\ ti' = 1
  /\ log' = <<>>
  /\ calls' = calls + 1
  /\ entry' = "generateModule"
  /\ atStart' = [dirs |-> dirs, files |-> files]
  /\ UNCHANGED <<fsVars, dirs, files, last, prev, renderVars>>

\* a slip: the templates directory not validated
templatesDirValid_unchecked == TRUE

\* the validation of the templates directory at the head of generateModules
templatesDirValid == templatesDirExists

\* generateModules: process.exit(1) when the templates directory is missing,
\* else the loop over the modules starts
CallGenerateModules(names) ==
  /\ pc = "idle"
  /\ calls < MaxCalls
  /\ pc' = IF templatesDirValid THEN "running" ELSE "exited"
  /\ moduleNames' = names
  /\ mi' = 1
  /\ ti' = 1
  /\ log' = <<>>
  /\ calls' = calls + 1
  /\ entry' = "generateModules"
  /\ atStart' = [dirs |-> dirs, files |-> files]
  /\ UNCHANGED <<fsVars, dirs, files, last, prev, renderVars>>

\* a slip: the loops nested the other way round, templates outermost
nextPosition_templateMajor(i, j) ==
  IF i < Len(moduleNames) THEN <<i + 1, j>>
  ELSE IF j < Len(TemplateNames) THEN <<1, j + 1>>
  ELSE <<Len(moduleNames) + 1, 1>>

\* the position of the two nested forEach loops after one more unit
nextPosition(i, j) ==
  IF j < Len(TemplateNames) THEN <<i, j + 1>> ELSE <<i + 1, 1>>

\* one iteration of the inner forEach: generateFile on the current unit
ForEachTemplate ==
  /\ pc = "running"
  /\ mi <= Len(moduleNames)
  /\ LET m == moduleNames[mi]
         t == TemplateNames[ti]
         result == generateFile(m, t, templates[t], stubs, dirs, files, denied)
     IN  /\ RunUnit(m, t)
         /\ log' = Append(log, [m |-> m, t |-> t, outcome |-> result.outcome])
         /\ IF errorPropagates(result)
              THEN pc' = "crashed" /\ UNCHANGED <<mi, ti>>
              ELSE /\ pc' = pc
                   /\ mi' = nextPosition(mi, ti)[1]
                   /\ ti' = nextPosition(mi, ti)[2]
  /\ UNCHANGED <<fsVars, moduleNames, calls, entry, atStart, renderVars>>

\* generateModules (or generateModule) returns once the list is exhausted
Return ==
  /\ pc = "running"
  /\ mi > Len(moduleNames)
  /\ pc' = "idle"
  /\ UNCHANGED <<fsVars, dirs, files, moduleNames, mi, ti, log, last, prev,
                 calls, entry, atStart, renderVars>>

Next ==
  \/ \E m \in ModuleInputs, t \in TemplateSet : CallGenerateFile(m, t)
  \/ \E m \in ModuleInputs : CallGenerateModule(m)
  \/ \E names \in ModuleLists : CallGenerateModules(names)
  \/ ForEachTemplate
  \/ Return

Spec == Init /\ [][Next]_vars

\* one run of the command line (main, `generate` or `batch`): a single call
\* of generateModules
CliGenerate(names) == calls = 0 /\ CallGenerateModules(names)

CliNext ==
  \/ \E names \in ModuleLists : CliGenerate(names)
  \/ ForEachTemplate
  \/ Return

\* the position of the loops moves on to the next unit
LoopAdvances ==
  /\ pc = "running"
  /\ mi <= Len(moduleNames)
  /\ mi' = nextPosition(mi, ti)[1]
  /\ ti' = nextPosition(mi, ti)[2]

\* the loops are synchronous: a started batch goes from unit to unit until it
\* returns
CliSpec ==
  Init /\ [][CliNext]_vars /\ WF_<<mi, ti>>(LoopAdvances) /\ WF_vars(Return)

(***************************************************************************)
(* The pure functions on their own: processTemplate applied to a template  *)
(* body, and the path derivation applied to a template descriptor.         *)
(***************************************************************************)
\* a placeholder that is not one of the six
TokUnknown == <<"{","{","f","o","o","}","}">>

\* what a template body or a filename pattern is made of
Pieces ==
  <<TokModuleName, TokPascal, TokSnake, TokKebab, TokCamel, TokUpper,
    TokUnknown, <<"x",".">>>>

RECURSIVE Concat(_)
Concat(seqs) == IF seqs = <<>> THEN <<>> ELSE Head(seqs) \o Concat(Tail(seqs))

\* the pieces of a body, by index in Pieces
PieceLists == UNION {[1..n -> DOMAIN Pieces] : n \in 0..MaxBodyLen}

BodyOf(ps) == Concat([k \in DOMAIN ps |-> Pieces[ps[k]]])

\* a module name that contains a placeholder
NameNested == <<"x","{","{","M","o","d","u","l","e","N","a","m","e","}","}">>

\* a module name that contains a replacement pattern of String.prototype.replace
NameDollar == <<"$","&">>

NameInputs ==
  {NameUserProfile, NameAuth, NameOrders, <<"a","P","I","K","e","y">>, NameNested, NameDollar}

\* descriptors as a generator.config.js may add them: a pattern using another
\* naming variant, a pattern naming the module twice, and no pattern
DescriptorInputs ==
  {templates[t] : t \in TemplateSet} \cup
  { [extension |-> <<"e","n","t","i","t","y",".","t","s">>, outputPath |-> <<"e","n","t","i","t","i","e","s">>,
     filename |-> TokPascal \o <<".","e","n","t","i","t","y",".","t","s">>],
    [extension |-> <<"s","p","e","c",".","t","s">>, outputPath |-> <<>>,
     filename |-> TokModuleName \o <<".">> \o TokModuleName \o <<".","s","p","e","c",".","t","s">>],
    [extension |-> <<"r","e","p","o","s","i","t","o","r","y",".","t","s">>, outputPath |-> <<"r","e","p","o","s","i","t","o","r","i","e","s">>,
     filename |-> <<>>] }

InitRender ==
  /\ templatesDirExists = FALSE
  /\ stubs = [t \in {} |-> <<>>]
  /\ dirs = {}
  /\ files = EmptyFiles
  /\ denied = {}
  /\ pc = "off"
  /\ moduleNames = <<>>
  /\ mi = 1
  /\ ti = 1
  /\ log = <<>>
  /\ last = NoCall
  /\ prev = NoCall
  /\ calls = 0
  /\ entry = "none"
  /\ atStart = [dirs |-> {}, files |-> EmptyFiles]
  /\ rphase = "input"
  /\ rout = <<>>
  /\ \/ /\ rkind = "render"
        /\ rbody \in PieceLists
        /\ rcfg = templates["module"]
     \/ /\ rkind = "resolve"
        /\ rbody = <<>>
        /\ rcfg \in DescriptorInputs
  /\ rname \in NameInputs

mainVars ==
  <<templatesDirExists, stubs, dirs, files, denied, pc, moduleNames, mi, ti,
    log, last, prev, calls, entry, atStart>>

\* processTemplate on the body made of the pieces rbody
Render ==
  /\ rphase = "input"
  /\ rkind = "render"
  /\ rout' = processTemplate(BodyOf(rbody), rname)
  /\ rphase' = "done"
  /\ UNCHANGED <<mainVars, rkind, rbody, rname, rcfg>>

\* the output directory and the filename generateFile derives
Resolve ==
  /\ rphase = "input"
  /\ rkind = "resolve"
  /\ rout' = <<resolveOutputPath(rname, rcfg), resolveFilename(rname, rcfg)>>
  /\ rphase' = "done"
  /\ UNCHANGED <<mainVars, rkind, rbody, rname, rcfg>>

NextRender == Render \/ Resolve

SpecRender == InitRender /\ [][NextRender]_vars

(***************************************************************************)
(* Properties.                                                             *)
(***************************************************************************)
NT == Len(TemplateNames)

\* the exclusion table has an entry for t that contains m
ExcludedByTable(m, t) == t \in DOMAIN exclusions /\ m \in exclusions[t]

\* outputDir/m/[subdir/]filename for the six configured templates
ExpectedDest(m, t) ==
  CASE t = "module" -> <<m, m \o <<".","m","o","d","u","l","e",".","t","s">>>>
    [] t = "controller" -> <<m, m \o <<".","c","o","n","t","r","o","l","l","e","r",".","t","s">>>>
    [] t = "service" -> <<m, m \o <<".","s","e","r","v","i","c","e",".","t","s">>>>
    [] t = "create-dto" -> <<m, <<"d","t","o">>, <<"c","r","e","a","t","e","-">> \o m \o <<".","d","t","o",".","t","s">>>>
    [] t = "update-dto" -> <<m, <<"d","t","o">>, <<"u","p","d","a","t","e","-">> \o m \o <<".","d","t","o",".","t","s">>>>
    [] t = "schema" -> <<m, <<"s","c","h","e","m","a">>, m \o <<".","s","c","h","e","m","a",".","t","s">>>>

ExpectedDir(m, t) == SubSeq(ExpectedDest(m, t), 1, Len(ExpectedDest(m, t)) - 1)

\* the unit at position k of a batch: modules in list order, then templates
UnitAt(k) ==
  [m |-> moduleNames[((k - 1) \div NT) + 1], t |-> TemplateNames[((k - 1) % NT) + 1]]

\* a batch has gone through its whole list
BatchDone ==
  /\ entry \in {"generateModule", "generateModules"}
  /\ pc \in {"idle", "running"}
  /\ mi > Len(moduleNames)

\* the last two generateFile calls were made on the same unit
TwiceInSuccession ==
  /\ prev.outcome # "None"
  /\ last.m = prev.m
  /\ last.t = prev.t

\* every file that existed before the last generateFile call still has the
\* content it had
ExistingFilesKept ==
  last.outcome # "None" =>
    \A p \in DOMAIN last.filesBefore :
      p \in DOMAIN files /\ files[p] = last.filesBefore[p]

GeneratedThenSkipped ==
  /\ prev.outcome = "Generated"
  /\ last.outcome = "SkippedExists"
  /\ ExpectedDest(last.m, last.t) \in DOMAIN files
  /\ files[ExpectedDest(last.m, last.t)]
       = last.filesBefore[ExpectedDest(last.m, last.t)]

\* C1 as stated: a generate call never changes the content of a file that
\* exists, and two calls in succession on a unit whose template is present,
\* whose module is not excluded and whose destination was absent yield
\* Generated then SkippedExists, the second leaving the content of the first.
C1_Original ==
  /\ ExistingFilesKept
  /\ ( /\ TwiceInSuccession
       /\ prev.templateFound
       /\ ~ExcludedByTable(prev.m, prev.t)
       /\ ~prev.destExisted ) => GeneratedThenSkipped

\* C1 as amended: the same, for a first call whose directory creation and
\* file write do not fail.
C1_ExistingOutputWins ==
  /\ ExistingFilesKept
  /\ ( /\ TwiceInSuccession
       /\ prev.templateFound
       /\ ~ExcludedByTable(prev.m, prev.t)
       /\ ~prev.destExisted
       /\ prev.reason # "WriteFailure" ) => GeneratedThenSkipped

C1_Witness ==
  /\ TwiceInSuccession
  /\ prev.outcome = "Generated"
  /\ last.outcome = "SkippedExists"
  /\ last.filesBefore # EmptyFiles

\* C2: generateFile on a pair the exclusion table excludes returns
\* SkippedExcluded, reads no template and leaves directories and files as
\* they were, whether or not the template or the destination exists.
C2_ExcludedNoEffect ==
  (last.outcome # "None" /\ ExcludedByTable(last.m, last.t)) =>
    /\ last.outcome = "SkippedExcluded"
    /\ ~last.read
    /\ dirs = last.dirsBefore
    /\ files = last.filesBefore

C2_Witness ==
  /\ last.outcome = "SkippedExcluded"
  /\ last.destExisted
  /\ ~last.templateFound

\* something on the way to the destination of (m, t) makes the directory
\* creation or the write fail
Obstructed(m, t) ==
  \E k \in 0..Len(ExpectedDir(m, t)) :
    \/ SubSeq(ExpectedDir(m, t), 1, k) \in denied
    \/ SubSeq(ExpectedDir(m, t), 1, k) \in DOMAIN files

\* C3: a failure of one unit is recorded as Failed for that unit only: no
\* error leaves generateFile, every unit attempted so far has one outcome, a
\* unit is Failed only for its own missing template or its own obstructed
\* destination, and a finished batch holds one outcome per (module, template)
\* position.
C3_FailureIsLocal ==
  /\ pc # "crashed"
  /\ pc = "running" => Len(log) = (mi - 1) * NT + (ti - 1)
  /\ \A k \in DOMAIN log :
       log[k].outcome = "Failed" =>
         \/ log[k].t \notin DOMAIN stubs
         \/ Obstructed(log[k].m, log[k].t)
  /\ BatchDone =>
       /\ Len(log) = NT * Len(moduleNames)
       /\ \A i \in DOMAIN moduleNames, j \in DOMAIN TemplateNames :
            /\ log[(i - 1) * NT + j].m = moduleNames[i]
            /\ log[(i - 1) * NT + j].t = TemplateNames[j]

C3_Witness ==
  /\ BatchDone
  /\ Len(moduleNames) = 2
  /\ \E j, k \in DOMAIN log :
       /\ j < k
       /\ log[j].outcome = "Failed"
       /\ log[k].outcome = "Generated"
  /\ \E k \in DOMAIN log :
       log[k].outcome = "Failed" /\ log[k].t \in DOMAIN stubs

\* C4: generateModules called while templatesDir is missing exits at once:
\* no unit is attempted, no outcome is logged, nothing changes below
\* outputDir, and nothing runs after the exit; it exits or aborts in no
\* other case.
C4_TemplatesDirMissing ==
  [][ /\ pc # "exited"
      /\ (calls' = calls + 1 /\ entry' = "generateModules"
            /\ ~templatesDirExists) =>
           /\ pc' = "exited"
           /\ log' = <<>>
           /\ UNCHANGED <<dirs, files, last, prev>>
      /\ pc' = "exited" =>
           (pc = "idle" /\ entry' = "generateModules" /\ ~templatesDirExists)
      /\ pc' # "crashed" ]_vars

C4_Witness ==
  /\ pc = "exited"
  /\ entry = "generateModules"
  /\ Len(moduleNames) = 2
  /\ log = <<>>

\* C5: after generateModules has gone through its list on an outputDir that
\* was empty, with every template present and nothing read-only, every
\* non-excluded (module, template) pair has a file at its destination holding
\* the template body rendered for the module, no excluded pair has one, and
\* there is no other file.
C5_OneFilePerUnit ==
  ( /\ BatchDone
    /\ entry = "generateModules"
    /\ atStart.dirs = {}
    /\ atStart.files = EmptyFiles
    /\ denied = {}
    /\ DOMAIN stubs = TemplateSet ) =>
    /\ \A i \in DOMAIN moduleNames, t \in TemplateSet :
         IF ExcludedByTable(moduleNames[i], t)
           THEN ~existsSync(ExpectedDest(moduleNames[i], t), dirs, files)
           ELSE /\ ExpectedDest(moduleNames[i], t) \in DOMAIN files
                /\ files[ExpectedDest(moduleNames[i], t)]
                     = processTemplate(stubs[t], moduleNames[i])
    /\ DOMAIN files =
         { ExpectedDest(moduleNames[i], t) :
             <<i, t>> \in { x \in (DOMAIN moduleNames) \X TemplateSet :
                              ~ExcludedByTable(moduleNames[x[1]], x[2]) } }

C5_Witness ==
  /\ BatchDone
  /\ entry = "generateModules"
  /\ atStart.dirs = {}
  /\ denied = {}
  /\ DOMAIN stubs = TemplateSet
  /\ moduleNames = <<NameAuth, NameOrders>>
  /\ Cardinality(DOMAIN files) = 9

\* the parts of str between the occurrences of token
RECURSIVE Segments(_, _)
Segments(str, token) ==
  IF \E i \in 1..Len(str) : MatchesAt(str, token, i)
    THEN LET first == CHOOSE i \in 1..Len(str) :
                        /\ MatchesAt(str, token, i)
                        /\ \A j \in 1..(i - 1) : ~MatchesAt(str, token, j)
         IN  <<SubSeq(str, 1, first - 1)>>
               \o Segments(SubSeq(str, first + Len(token), Len(str)), token)
    ELSE <<str>>

RECURSIVE Join(_, _)
Join(segs, sep) ==
  IF Len(segs) = 1 THEN segs[1] ELSE segs[1] \o sep \o Join(Tail(segs), sep)

\* a module name read as a replacement string: $$ is a dollar sign and $&
\* the token that is replaced
RECURSIVE NameAsReplacement(_, _)
NameAsReplacement(name, token) ==
  IF Len(name) < 2 THEN name
  ELSE IF name[1] = "$" /\ name[2] = "$"
    THEN <<"$">> \o NameAsReplacement(SubSeq(name, 3, Len(name)), token)
  ELSE IF name[1] = "$" /\ name[2] = "&"
    THEN token \o NameAsReplacement(SubSeq(name, 3, Len(name)), token)
  ELSE <<name[1]>> \o NameAsReplacement(Tail(name), token)

Resolved == rphase = "done" /\ rkind = "resolve"

Rendered == rphase = "done" /\ rkind = "render"

DirectoryAsClaimed ==
  rout[1] = IF rcfg.outputPath # <<>> THEN <<rname, rcfg.outputPath>>
                                      ELSE <<rname>>

\* C6 as stated: the directory is outputDir/moduleName[/outputPath] and the
\* filename is the pattern rendered like a template body, all six tokens
\* replaced, or moduleName.extension without a pattern.
C6_Original ==
  Resolved =>
    /\ DirectoryAsClaimed
    /\ rout[2] = IF rcfg.filename # <<>>
                   THEN processTemplate(rcfg.filename, rname)
                   ELSE rname \o <<".">> \o rcfg.extension

\* C6 as amended: in the pattern only the occurrences of {{moduleName}} are
\* replaced, each by the module name read as a replacement string; the rest
\* of the pattern, the five other tokens included, is kept as it is.
C6_OnlyModuleNameToken ==
  Resolved =>
    /\ DirectoryAsClaimed
    /\ rout[2] = IF rcfg.filename # <<>>
                   THEN Join(Segments(rcfg.filename, TokModuleName),
                             NameAsReplacement(rname, TokModuleName))
                   ELSE rname \o <<".">> \o rcfg.extension
    /\ (rname = NameOrders /\ rcfg = templates["create-dto"]) =>
         rout = << <<NameOrders, <<"d","t","o">>>>, <<"c","r","e","a","t","e","-","o","r","d","e","r","s",".","d","t","o",".","t","s">> >>

C6_Witness ==
  /\ Resolved
  /\ rname = NameOrders
  /\ rcfg.filename = TokPascal \o <<".","e","n","t","i","t","y",".","t","s">>
  /\ rout = << <<NameOrders, <<"e","n","t","i","t","i","e","s">>>>, TokPascal \o <<".","e","n","t","i","t","y",".","t","s">> >>

\* C7: a run of generateModules logs the units one at a time in the order
\* modules-then-templates, each position once, and a started batch ends with
\* every unit of its list processed.
C7_SequentialOrder ==
  /\ [](\A k \in DOMAIN log :
          log[k].m = UnitAt(k).m /\ log[k].t = UnitAt(k).t)
  /\ [](pc = "running" => Len(log) = (mi - 1) * NT + (ti - 1))
  /\ [](Len(log) <= NT * Len(moduleNames))
  /\ (pc = "running") ~> (pc = "idle" /\ Len(log) = NT * Len(moduleNames))

C7_Witness ==
  /\ pc = "idle"
  /\ entry = "generateModules"
  /\ moduleNames = <<NameOrders, NameAuth>>
  /\ Len(log) = 2 * NT
  /\ log[1].m = NameOrders
  /\ log[NT + 1].m = NameAuth

\* the orders in which the six replacements can be made
Orders ==
  { o \in [1..6 -> 1..6] : \A i, j \in 1..6 : i # j => o[i] # o[j] }

\* C8: the result of processTemplate is the same in whatever order the six
\* tokens are replaced.
C8_OrderIndependent ==
  Rendered =>
    \A o \in Orders :
      applyReplacements(BodyOf(rbody), replacements(rname), o) = rout

\* the naming variant a piece of a body stands for; any other piece stands
\* for itself
VariantOf(piece, name) ==
  CASE piece = 1 -> name
    [] piece = 2 -> toPascalCase(name)
    [] piece = 3 -> toSnakeCase(name)
    [] piece = 4 -> toKebabCase(name)
    [] piece = 5 -> toCamelCase(name)
    [] piece = 6 -> toUpperCase(name)
    [] OTHER -> Pieces[piece]

\* the variants of userProfile, written out
UserProfileVariant(piece) ==
  CASE piece = 1 -> <<"u","s","e","r","P","r","o","f","i","l","e">>
    [] piece = 2 -> <<"U","s","e","r","P","r","o","f","i","l","e">>
    [] piece = 3 -> <<"u","s","e","r","_","p","r","o","f","i","l","e">>
    [] piece = 4 -> <<"u","s","e","r","-","p","r","o","f","i","l","e">>
    [] piece = 5 -> <<"u","s","e","r","P","r","o","f","i","l","e">>
    [] piece = 6 -> <<"U","S","E","R","P","R","O","F","I","L","E">>
    [] OTHER -> Pieces[piece]

\* C9: processTemplate replaces every occurrence of each of the six tokens
\* by its naming variant and keeps every other text; for userProfile the
\* variants are the six strings written out.
C9_EveryOccurrence ==
  Rendered =>
    /\ rout = Concat([k \in DOMAIN rbody |-> VariantOf(rbody[k], rname)])
    /\ rname = NameUserProfile =>
         rout = Concat([k \in DOMAIN rbody |-> UserProfileVariant(rbody[k])])

====
